---- MODULE Spec2Model ----
(***************************************************************************)
(* A model of the runtime core of the gluon virtual machine:               *)
(*   - the mark-and-sweep heap           (vm/src/gc.rs, TypedGc<T>)        *)
(*   - the bytecode verifier             (vm/src/verify.rs, Verifier)      *)
(* The heap is driven by a client shaped like gc.rs's own tests: payloads  *)
(* are Vec<Value>, Value = Int(i32) | Data(handle), allocation descriptors *)
(* are Def { elems } and the root set is the client's `stack` of Values.   *)
(***************************************************************************)
EXTENDS Integers, Sequences, FiniteSets, TLC

\* ------------------------------------------------------------------ bounds

\* A run is at most MaxOps heap operations on a new heap, so at most MaxOps
\* objects are ever allocated at once: heap addresses are 1..MaxOps.
MaxOps == 4

\* The heap holds at most MaxSlots payload elements in all: a descriptor
\* Def { elems } may carry as many elements as are left of them.
MaxSlots == 2

\* One Verifier consumes at most MaxInstrs instructions over its verify calls.
MaxInstrs == 3

\* One Verifier serves at most MaxRuns verify calls.
MaxRuns == 2

\* Instruction operands (stack index, global index, argument count, tag, field
\* offset) range over 0..MaxOperand.
MaxOperand == 1

\* Interned names are 1..MaxNames.
MaxNames == 1

\* An expansion receives at most MaxArgs arguments.
MaxArgs == 2

\* ------------------------------------------------------- program constants

\* mem::size_of::<Header<T>>(): next (8) + value_size (8) + marked (1), repr(C).
HeaderSize == 24

\* mem::align_of::<T>() of the payload type.
MaxAlign == 8

\* mem::size_of::<Value>() in Def::size.
SizeOfValue == 16

\* TypedGc::new: collect_limit: 100.
InitialCollectLimit == 100

VARIABLES
    values,            \* TypedGc.values: the live list, head first (addresses)
    heap,              \* address -> [next-free storage]: header + payload of every allocated object
    allocated_memory,  \* TypedGc.allocated_memory
    collect_limit,     \* TypedGc.collect_limit
    stack,             \* the client's root vector (tests::basic `stack`)
    pc,                \* "idle" | "panicked" | "overflow"
    op,                \* the operation that produced this state
    ret,               \* the handle the last alloc returned (0: none)
    collected,         \* whether the last operation ran a collection
    init_calls,        \* initialiser invocations made by the last alloc
    init_same,         \* whether that initialiser returned the pointer it was handed
    entered,           \* address -> times the last mark pass entered its payload
    visits,            \* handles the last mark pass visited
    freed,             \* addresses the last operation deallocated
    nops,              \* heap operations performed so far
    vstack,            \* Verifier.stack
    errors,            \* Verifier.errors
    vpc,               \* "idle" (no verify call in progress) | "run" | "panic"
    bytecode_type,     \* the bytecode_type argument of the verify call
    ip,                \* instructions this Verifier has consumed so far
    inst,              \* the instruction consumed last
    result,            \* what the last verify call returned
    recorded,          \* the errors recorded during the call, in order
    fatal,             \* whether the call hit a condition that ends it at once
    malformed,         \* whether the call consumed an instruction it cannot index
    prefix,            \* the instructions this call has consumed, in order
    runs,              \* verify calls made on this Verifier
    eq_expected,       \* Verifier::equivalent: the `expected` it was last called with
    eq_actual,         \* ... and the `actual`
    eq_forth,          \* equivalent(expected, actual)
    eq_back,           \* equivalent(actual, expected)
    eq_calls,          \* calls of equivalent made
    macros,            \* the VM's macro table: name -> the id of its RunMacro, or 0
    global_table,      \* the VM's globals: name -> the closure bound to it, or NoGlobal
    expr_registered,   \* whether the type "Expr" is registered
    arguments,         \* the argument list of the last expansion, as the call left it
    args_in,           \* the argument list as that expansion received it
    m_op,              \* the expansion made last: "new" | "def_macro" | "run_macro"
    m_id,              \* the name that expansion was made for (0: none)
    m_result,          \* what that expansion returned
    m_called,          \* the closure that expansion invoked, or NoGlobal
    m_prev,            \* the closure bound to the name when that def_macro began
    verified           \* the closures whose bytecode Verifier::verify has accepted

heapVars == <<values, heap, allocated_memory, collect_limit, stack, pc, op, ret,
              collected, init_calls, init_same, entered, visits, freed, nops>>

verifierVars == <<vstack, errors, vpc, bytecode_type, ip, inst, result, recorded,
                  fatal, malformed, prefix, runs>>

equivVars == <<eq_expected, eq_actual, eq_forth, eq_back, eq_calls>>

macroVars == <<macros, global_table, expr_registered, arguments, args_in, m_op, m_id,
               m_result, m_called, m_prev, verified>>

\* What the heap operations leave alone, and what verify leaves alone.
nonHeapVars == <<verifierVars, equivVars, macroVars>>

nonVerifierVars == <<heapVars, equivVars, macroVars>>

vars == <<heapVars, verifierVars, equivVars, macroVars>>

\* ------------------------------------------------------------------ values

Addrs == 1..MaxOps

\* tests::Value
IntV(i) == [tag |-> "Int", v |-> i]

DataV(p) == [tag |-> "Data", v |-> p]

\* Sequences over S of length at most n.
SeqUpTo(S, n) == UNION {[1..k -> S] : k \in 0..n}

\* No payload entered: the counters before a mark pass.
NoneEntered == [a \in Addrs |-> 0]

\* --------------------------------------------------------------- gc.rs

\* fn value_offset / fn sized_value_offset
ValueOffset == HeaderSize + ((MaxAlign - (HeaderSize % MaxAlign)) % MaxAlign)

\* DataDef::size for tests::Def
DefSize(def) == Len(def.elems) * SizeOfValue

\* AllocPtr::new: a header with next: None (the link is the position on
\* `values`), value_size and marked: false; the payload is written by alloc.
AllocPtrNew(value_size) == [value_size |-> value_size, marked |-> FALSE, value |-> <<>>]

\* AllocPtr::size
AllocPtrSize(h) == ValueOffset + h.value_size

\* mark_header without header.header.marked.set(true).
MarkHeader_NeverSets(h) == <<h.marked, h>>

\* HasHeader::mark_header: observes the mark bit and sets it.
\* Returns <<already marked, the header afterwards>>.
MarkHeader(h) == <<h.marked, [h EXCEPT !.marked = TRUE]>>

\* Payload elements of the objects S of `hp`.
RECURSIVE SlotsOf(_, _)
SlotsOf(hp, S) ==
    IF S = {} THEN 0
    ELSE LET a == CHOOSE b \in S : TRUE IN Len(hp[a].value) + SlotsOf(hp, S \ {a})

\* Payload elements allocated in `hp`.
Slots(hp) == SlotsOf(hp, DOMAIN hp)

\* The number of handle visits no terminating mark pass over `hp` from `rs`
\* can exceed: every root handle once, every payload slot once.
VisitBound(hp, rs) == Len(rs) + Slots(hp)

\* Traverseable: the mark pass. m = [heap, entered, visits, limit, overflow].
RECURSIVE TraverseGcPtr(_, _), TraverseSeq(_, _, _)

\* traverse that marks the handle and never descends into its payload.
TraverseGcPtr_MarksOnly(m, p) ==
    [m EXCEPT !.heap[p] = MarkHeader(m.heap[p])[2], !.visits = @ + 1]

\* impl Traverseable for GcPtr<T>: mark, and traverse the payload if the
\* handle was not marked before.
TraverseGcPtr(m, p) ==
    IF m.overflow \/ m.visits >= m.limit
    THEN [m EXCEPT !.overflow = TRUE]
    ELSE LET r  == MarkHeader(m.heap[p])
             m1 == [m EXCEPT !.heap[p] = r[2], !.visits = @ + 1]
         IN IF ~r[1]
            THEN TraverseSeq([m1 EXCEPT !.entered[p] = @ + 1], m1.heap[p].value, 1)
            ELSE m1

\* tests::Value::traverse
TraverseValue(m, v) == IF v.tag = "Data" THEN TraverseGcPtr(m, v.v) ELSE m

\* impl Traverseable for [U] / Vec<T> / &T / tuples: element by element, in order.
TraverseSeq(m, s, i) ==
    IF i > Len(s) THEN m ELSE TraverseSeq(TraverseValue(m, s[i]), s, i + 1)

\* A free that gives back the payload and not the header.
Free_PayloadOnly(mem, h) == mem - h.value_size

\* TypedGc::free
Free(mem, h) == mem - AllocPtrSize(h)

\* TypedGc::sweep over the list from position i: s = [values, heap, mem].
RECURSIVE SweepFrom(_, _, _)

\* A sweep that leaves the mark of a survivor set.
SweepFrom_KeepsMarks(s, list, i) ==
    IF i > Len(list) THEN s
    ELSE LET a == list[i] IN
         IF ~s.heap[a].marked
         THEN SweepFrom([values |-> s.values,
                         heap   |-> [b \in DOMAIN s.heap \ {a} |-> s.heap[b]],
                         mem    |-> Free(s.mem, s.heap[a])], list, i + 1)
         ELSE SweepFrom([values |-> Append(s.values, a),
                         heap   |-> s.heap,
                         mem    |-> s.mem], list, i + 1)

SweepFrom(s, list, i) ==
    IF i > Len(list) THEN s
    ELSE LET a == list[i] IN
         IF ~s.heap[a].marked
         THEN SweepFrom([values |-> s.values,
                         heap   |-> [b \in DOMAIN s.heap \ {a} |-> s.heap[b]],
                         mem    |-> Free(s.mem, s.heap[a])], list, i + 1)
         ELSE SweepFrom([values |-> Append(s.values, a),
                         heap   |-> [s.heap EXCEPT ![a].marked = FALSE],
                         mem    |-> s.mem], list, i + 1)

Sweep(vals, hp, mem) == SweepFrom([values |-> <<>>, heap |-> hp, mem |-> mem], vals, 1)

\* The limit taken from the memory counted before the sweep.
NewLimit_BeforeSweep(mem_before, mem_after) == 2 * mem_before

\* collect: self.collect_limit = 2 * self.allocated_memory, after self.sweep().
NewLimit(mem_before, mem_after) == 2 * mem_after

\* TypedGc::collect(roots): mark from the roots, sweep, reset the limit.
\* Returns [values, heap, mem, limit, entered, visits, overflow, freed].
CollectResult(vals, hp, mem, rs) ==
    LET m == TraverseSeq([heap |-> hp, entered |-> NoneEntered, visits |-> 0,
                          limit |-> VisitBound(hp, rs) + 1, overflow |-> FALSE], rs, 1)
        s == Sweep(vals, m.heap, mem)
    IN [values |-> s.values, heap |-> s.heap, mem |-> s.mem,
        limit |-> NewLimit(mem, s.mem),
        entered |-> m.entered, visits |-> m.visits, overflow |-> m.overflow,
        freed |-> DOMAIN hp \ DOMAIN s.heap]

\* TypedGc::object_count: the links on the live list, counted one by one.
RECURSIVE ObjectCount(_)
ObjectCount(vals) == IF vals = <<>> THEN 0 ELSE 1 + ObjectCount(Tail(vals))

\* The smallest free address: where the allocator places the next object.
FreshAddr(hp) == CHOOSE a \in Addrs \ DOMAIN hp : \A b \in Addrs \ DOMAIN hp : a <= b

\* DataDef::initialize: the payload it writes, and whether it returns the
\* pointer it was handed.
Initialize(def) == [value |-> def.elems, same_ptr |-> def.honest]

\* The descriptors the client may pass: elements are IntV(1) or a handle it holds.
Defs(hp) == [elems : SeqUpTo({IntV(1)} \cup {DataV(p) : p \in DOMAIN hp},
                             MaxSlots - Slots(hp)),
             honest : BOOLEAN]

\* The new header linked behind the list instead of in front of it.
Link_AtTail(a, vals) == Append(vals, a)

\* alloc: ptr.header.next = self.values.take(); ... self.values = Some(ptr).
Link(a, vals) == <<a>> \o vals

\* alloc without its assertion.
PointerCheck_Off(same_ptr) == TRUE

\* alloc: assert!(ret == p).
PointerCheck(same_ptr) == same_ptr

\* TypedGc::alloc on the heap (vals, hp, mem): the state after the call.
AllocResult(vals, hp, mem, def) ==
    LET a    == FreshAddr(hp)
        ptr  == AllocPtrNew(DefSize(def))
        mem1 == mem + AllocPtrSize(ptr)
        ini  == Initialize(def)
    IN IF PointerCheck(ini.same_ptr)
       THEN [panic |-> FALSE, values |-> Link(a, vals),
             heap |-> [b \in DOMAIN hp \cup {a} |->
                          IF b = a THEN [ptr EXCEPT !.value = ini.value] ELSE hp[b]],
             mem |-> mem1, ret |-> a, init_calls |-> 1, init_same |-> ini.same_ptr,
             freed |-> {}]
       \* assert!(ret == p) fails after values.take(): the list is not put back and
       \* unwinding drops `ptr`, whose Drop reads the header and so drops the chain.
       ELSE [panic |-> TRUE, values |-> <<>>, heap |-> <<>>,
             mem |-> mem1, ret |-> 0, init_calls |-> 1, init_same |-> FALSE,
             freed |-> DOMAIN hp]

Init ==
    /\ values = <<>>
    /\ heap = <<>>
    /\ allocated_memory = 0
    /\ collect_limit = InitialCollectLimit
    /\ stack = <<>>
    /\ pc = "idle"
    /\ op = "new"
    /\ ret = 0
    /\ collected = FALSE
    /\ init_calls = 0
    /\ init_same = TRUE
    /\ entered = NoneEntered
    /\ visits = 0
    /\ freed = {}
    /\ nops = 0
    /\ vstack = <<>>
    /\ errors = <<>>
    /\ vpc = "idle"
    /\ bytecode_type = [k |-> "Int", a |-> <<>>]
    /\ ip = 0
    /\ inst = [op |-> "None", a |-> 0, b |-> 0]
    /\ result = [kind |-> "none", errors |-> <<>>]
    /\ recorded = <<>>
    /\ fatal = FALSE
    /\ malformed = FALSE
    /\ prefix = <<>>
    /\ runs = 0
    /\ eq_expected = [abs |-> "TcType", typ |-> [k |-> "Int", a |-> <<>>]]
    /\ eq_actual = [abs |-> "TcType", typ |-> [k |-> "Int", a |-> <<>>]]
    /\ eq_forth = TRUE
    /\ eq_back = TRUE
    /\ eq_calls = 0
    /\ macros = [n \in 1..MaxNames |-> 0]
    /\ global_table = [n \in 1..MaxNames |-> [e |-> "None", v |-> 0]]
    /\ expr_registered = FALSE
    /\ arguments = <<>>
    /\ args_in = <<>>
    /\ m_op = "new"
    /\ m_id = 0
    /\ m_result = [kind |-> "none", node |-> [e |-> "None", v |-> 0], msg |-> "", n |-> 0]
    /\ m_called = [e |-> "None", v |-> 0]
    /\ m_prev = [e |-> "None", v |-> 0]
    /\ verified = {}

\* A collection from the roots alone.
TupleRoots_RootsOnly(rs, def) == rs

\* alloc_and_collect compared with > instead of >=.
NeedsCollect_Strict(mem, limit) == mem > limit

\* alloc_and_collect: if self.allocated_memory >= self.collect_limit.
NeedsCollect(mem, limit) == mem >= limit

\* The root set (roots, &def) of alloc_and_collect: a tuple is traversed field
\* by field, and a descriptor traverses the elements it holds.
TupleRoots(rs, def) == rs \o def.elems

\* The client keeps the returned handle on its stack, or drops it.
Keep(st, r, keep) == IF keep /\ r # 0 THEN Append(st, DataV(r)) ELSE st

\* The part of a call that is TypedGc::alloc, on the heap (vals, hp, mem);
\* `swept` is what a collection earlier in the same call freed.
AllocInto(vals, hp, mem, swept, def, keep) ==
    LET r == AllocResult(vals, hp, mem, def) IN
    /\ values' = r.values
    /\ heap' = r.heap
    /\ allocated_memory' = r.mem
    /\ ret' = r.ret
    /\ init_calls' = r.init_calls
    /\ init_same' = r.init_same
    /\ freed' = swept \cup r.freed
    /\ pc' = IF r.panic THEN "panicked" ELSE "idle"
    /\ stack' = Keep(stack, r.ret, keep)

\* gc.alloc(def)
Alloc(def, keep) ==
    /\ pc = "idle"
    /\ nops < MaxOps
    /\ nops' = nops + 1
    /\ AllocInto(values, heap, allocated_memory, {}, def, keep)
    /\ op' = "alloc"
    /\ collected' = FALSE
    /\ entered' = NoneEntered
    /\ visits' = 0
    /\ UNCHANGED <<collect_limit, nonHeapVars>>

\* gc.alloc_and_collect(&mut *stack, def)
AllocAndCollect(def, keep) ==
    /\ pc = "idle"
    /\ nops < MaxOps
    /\ nops' = nops + 1
    /\ op' = "alloc_and_collect"
    /\ UNCHANGED nonHeapVars
    /\ IF NeedsCollect(allocated_memory, collect_limit)
       THEN LET c == CollectResult(values, heap, allocated_memory, TupleRoots(stack, def)) IN
            /\ collected' = TRUE
            /\ entered' = c.entered
            /\ visits' = c.visits
            /\ collect_limit' = c.limit
            /\ IF c.overflow
               THEN /\ pc' = "overflow"
                    /\ freed' = {}
                    /\ UNCHANGED <<values, heap, allocated_memory, stack, ret,
                                   init_calls, init_same>>
               ELSE AllocInto(c.values, c.heap, c.mem, c.freed, def, keep)
       ELSE /\ collected' = FALSE
            /\ AllocInto(values, heap, allocated_memory, {}, def, keep)
            /\ entered' = NoneEntered
            /\ visits' = 0
            /\ UNCHANGED collect_limit

\* gc.collect(&mut *stack)
Collect ==
    /\ pc = "idle"
    /\ nops < MaxOps
    /\ nops' = nops + 1
    /\ LET c == CollectResult(values, heap, allocated_memory, stack) IN
       /\ entered' = c.entered
       /\ visits' = c.visits
       /\ IF c.overflow
          THEN /\ pc' = "overflow"
               /\ freed' = {}
               /\ UNCHANGED <<values, heap, allocated_memory, collect_limit>>
          ELSE /\ pc' = "idle"
               /\ freed' = c.freed
               /\ values' = c.values
               /\ heap' = c.heap
               /\ allocated_memory' = c.mem
               /\ collect_limit' = c.limit
    /\ op' = "collect"
    /\ collected' = TRUE
    /\ ret' = 0
    /\ init_calls' = 0
    /\ init_same' = TRUE
    /\ UNCHANGED <<stack, nonHeapVars>>

\* stack.pop()
Pop ==
    /\ pc = "idle"
    /\ nops < MaxOps
    /\ nops' = nops + 1
    /\ stack # <<>>
    /\ stack' = SubSeq(stack, 1, Len(stack) - 1)
    /\ op' = "pop"
    /\ collected' = FALSE
    /\ ret' = 0
    /\ init_calls' = 0
    /\ init_same' = TRUE
    /\ freed' = {}
    /\ entered' = NoneEntered
    /\ visits' = 0
    /\ UNCHANGED <<values, heap, allocated_memory, collect_limit, pc, nonHeapVars>>

\* A payload mutated in place through its own API (a Cell<Value> slot).
SetField(a, i, v) ==
    /\ pc = "idle"
    /\ nops < MaxOps
    /\ nops' = nops + 1
    /\ a \in DOMAIN heap
    /\ i \in 1..Len(heap[a].value)
    /\ heap[a].value[i] # v
    /\ heap' = [heap EXCEPT ![a].value[i] = v]
    /\ op' = "set"
    /\ collected' = FALSE
    /\ ret' = 0
    /\ init_calls' = 0
    /\ init_same' = TRUE
    /\ freed' = {}
    /\ entered' = NoneEntered
    /\ visits' = 0
    /\ UNCHANGED <<values, allocated_memory, collect_limit, stack, pc, nonHeapVars>>

HeapNext ==
    \/ \E def \in Defs(heap), keep \in BOOLEAN : Alloc(def, keep)
    \/ \E def \in Defs(heap), keep \in BOOLEAN : AllocAndCollect(def, keep)
    \/ Collect
    \/ Pop
    \/ \E a \in Addrs, i \in 1..MaxSlots, v \in {IntV(1)} \cup {DataV(p) : p \in DOMAIN heap} :
          SetField(a, i, v)

SpecHeap == Init /\ [][HeapNext]_vars

\* ------------------------------------------------- reachability (for claims)

Range(s) == {s[i] : i \in DOMAIN s}

\* The handles a sequence of Values holds.
HandlesOf(s) == {s[i].v : i \in {j \in DOMAIN s : s[j].tag = "Data"}}

RECURSIVE Closure(_, _)
Closure(hp, S) ==
    LET N == S \cup UNION {HandlesOf(hp[a].value) : a \in S}
    IN IF N = S THEN S ELSE Closure(hp, N)

\* The objects reachable from the root Values rs through payload handles.
Reach(hp, rs) == Closure(hp, HandlesOf(rs))

\* The objects on a cycle with a: those a reaches that reach a back.
CycleOf(hp, a) ==
    {b \in Closure(hp, HandlesOf(hp[a].value)) : a \in Closure(hp, HandlesOf(hp[b].value))}

\* Every handle held by the client or by a payload addresses an allocated object.
NoDangling ==
    pc = "idle" =>
        /\ HandlesOf(stack) \subseteq DOMAIN heap
        /\ \A a \in DOMAIN heap : HandlesOf(heap[a].value) \subseteq DOMAIN heap
        /\ Range(values) = DOMAIN heap

\* ------------------------------------------------------------ heap claims

\* C1: after collect(R), every object reachable from R is still on the live
\* list with its payload unchanged, every object not reachable from R has been
\* freed, and object_count() is the number of objects reachable from R (0 for
\* an empty root set).
C1_CollectKeepsExactlyReachable ==
    [][(op' = "collect" /\ pc' = "idle") =>
          LET R == Reach(heap, stack) IN
          /\ \A a \in R : /\ a \in Range(values')
                          /\ a \in DOMAIN heap'
                          /\ heap'[a].value = heap[a].value
          /\ \A a \in DOMAIN heap \ R : a \notin DOMAIN heap' /\ a \notin Range(values')
          /\ ObjectCount(values') = Cardinality(R)
          /\ (stack = <<>> => ObjectCount(values') = 0)]_vars

\* A collect that kept one object, through a payload handle, and freed another.
C1_Witness ==
    /\ op = "collect" /\ pc = "idle"
    /\ freed # {}
    /\ \E a \in DOMAIN heap : DataV(a) \notin Range(stack) /\ heap[a].value # <<>>

\* C2: on a heap with cycles (self-references included) collect terminates,
\* the mark pass enters each payload at most once, and the members of a cycle
\* all survive if one of them is reachable from the roots and are all freed
\* if none is.
C2_CyclesTerminateAndSurviveTogether ==
    [][op' = "collect" =>
          /\ pc' = "idle"
          /\ \A a \in Addrs : entered'[a] <= 1
          /\ visits' <= VisitBound(heap, stack)
          /\ \A a \in DOMAIN heap :
                LET C == CycleOf(heap, a) IN
                a \in C =>
                   /\ (C \cap Reach(heap, stack) # {} => C \subseteq Range(values'))
                   /\ (C \cap Reach(heap, stack) = {} => C \cap DOMAIN heap' = {})]_vars

\* A collect that kept a cycle of two objects.
C2_Witness ==
    /\ op = "collect" /\ pc = "idle"
    /\ \E a, b \in DOMAIN heap : a # b /\ b \in CycleOf(heap, a) /\ entered[a] = 1

\* C3: an alloc_and_collect that collects frees no object reachable from its
\* roots or from the handles its descriptor holds, and the object it returns
\* is on the live list when the call returns.
C3_AllocAndCollectRoots ==
    [][(op' = "alloc_and_collect" /\ collected' /\ pc' = "idle") =>
          \* the initialiser wrote the descriptor's elements into the new payload
          LET def_elems == heap'[ret'].value IN
          /\ \A a \in Reach(heap, stack) \cup Reach(heap, def_elems) :
                /\ a \in Range(values')
                /\ a \in DOMAIN heap'
                /\ heap'[a].value = heap[a].value
                /\ a \notin freed'
                /\ a # ret'
          /\ ret' \in Range(values')
          /\ ret' \in DOMAIN heap'
          /\ Head(values') = ret']_vars

\* An alloc_and_collect whose collection freed an object and kept one that only
\* the descriptor held.
C3_Witness ==
    /\ op = "alloc_and_collect" /\ collected /\ pc = "idle"
    /\ freed # {}
    /\ \E a \in HandlesOf(heap[ret].value) : a # ret /\ a \notin Reach(heap, stack)

\* C4: right after every collect, direct or inside alloc_and_collect,
\* collect_limit is twice allocated_memory as the sweep left it (inside
\* alloc_and_collect: the memory before the new object was added).
C4_LimitIsTwiceSweptMemory ==
    (collected /\ pc = "idle") =>
        collect_limit =
            2 * (allocated_memory - (IF ret # 0 THEN AllocPtrSize(heap[ret]) ELSE 0))

\* A collection that left live objects, so that the limit is not 0.
C4_Witness ==
    /\ collected /\ pc = "idle"
    /\ collect_limit > 0
    /\ freed # {}

C6_AllocLinksAtHead ==
    [][(op' = "alloc" /\ pc' = "idle") =>
          /\ init_calls' = 1
          /\ values' # <<>>
          /\ Head(values') = ret'
          /\ Tail(values') = values
          /\ ret' \notin DOMAIN heap
          /\ heap'[ret'].marked = FALSE
          /\ ObjectCount(values') = ObjectCount(values) + 1]_vars

\* An alloc onto a list that already held two objects.
C6_Witness ==
    /\ op = "alloc" /\ pc = "idle"
    /\ Len(values) >= 3
    /\ Head(values) = ret

\* C7: when the initialiser returns another pointer than the one it was handed,
\* alloc panics and returns no handle.
C7_WrongPointerPanics ==
    [][(op' \in {"alloc", "alloc_and_collect"} /\ pc' # "overflow") =>
          /\ init_calls' = 1
          /\ (~init_same' => pc' = "panicked" /\ ret' = 0 /\ stack' = stack)
          /\ (pc' = "panicked" => ~init_same')]_vars

\* A panicked alloc.
C7_Witness == pc = "panicked" /\ op = "alloc" /\ ~init_same /\ ret = 0

\* ------------------------------------------------------------- verify.rs

\* base::types::Type: a kind and its component types.
IntType == [k |-> "Int", a |-> <<>>]

FloatType == [k |-> "Float", a |-> <<>>]

StringType == [k |-> "String", a |-> <<>>]

\* Type::Function(args, return_type), one argument a time.
FunctionType(arg, return_type) == [k |-> "Function", a |-> <<arg, return_type>>]

\* Type::Record { fields }: the field types, in declaration order.
RecordType(fields) == [k |-> "Record", a |-> fields]

\* Type::Variants(variants): the constructor types, in tag order.
VariantsType(variants) == [k |-> "Variants", a |-> variants]

\* A type known by name: what the constructors of a variant type return.
NamedType == [k |-> "Id", a |-> <<>>]

\* A record of an Int and a String.
PairType == RecordType(<<IntType, StringType>>)

\* A variant type of a constructor without arguments (tag 0) and a
\* constructor of one Int (tag 1).
OptionType == VariantsType(<<NamedType, FunctionType(IntType, NamedType)>>)

\* AbstractType::TcType
TcType(t) == [abs |-> "TcType", typ |-> t]

\* AbstractType::Variant
Variant(tag, args) == [abs |-> "Variant", tag |-> tag, args |-> args]

\* enum Error
UndefinedGlobal(k) == [err |-> "UndefinedGlobal", index |-> k]

TypeMismatch(expected, actual) ==
    [err |-> "TypeMismatch", expected |-> expected, actual |-> actual]

NotEnoughArguments == [err |-> "NotEnoughArguments"]

EmptyStack == [err |-> "EmptyStack"]

FieldIsOutOfRange(t, k) == [err |-> "FieldIsOutOfRange", typ |-> t, index |-> k]

\* types::Instruction, the opcodes verify reads and one it does not (Pop).
Instr(o, a, b) == [op |-> o, a |-> a, b |-> b]

Operands == 0..MaxOperand

Instructions ==
    {Instr(o, a, 0) : o \in {"Push", "PushGlobal", "Call", "TailCall", "GetField"},
                      a \in Operands}
    \cup {Instr("Construct", tag, n) : tag \in Operands, n \in Operands}
    \cup {Instr(o, 0, 0) : o \in {"PushInt", "PushFloat", "PushString", "Pop"}}

\* The function types handed to verify: a value without formals, a function
\* of a record of one field, and a function of a record, a variant and a
\* function of that variant.
BytecodeTypes ==
    {IntType,
     FunctionType(RecordType(<<IntType>>), IntType),
     FunctionType(PairType,
        FunctionType(OptionType,
           FunctionType(FunctionType(OptionType, IntType), IntType)))}

\* Verifier.globals: global 0 is a function of an Int and a String, no other
\* global is defined.
Globals(offset) ==
    IF offset = 0
    THEN [some |-> TRUE, typ |-> FunctionType(IntType, FunctionType(StringType, IntType))]
    ELSE [some |-> FALSE, typ |-> IntType]

\* base::types::arg_iter, one next(): the formal it yields and the type left.
ArgIterNext(t) ==
    IF t.k = "Function"
    THEN [some |-> TRUE, arg |-> t.a[1], typ |-> t.a[2]]
    ELSE [some |-> FALSE, arg |-> t, typ |-> t]

\* arg_iter(t) run to its end: every formal, in order.
RECURSIVE ArgTypes(_)
ArgTypes(t) ==
    LET n == ArgIterNext(t) IN
    IF n.some THEN <<n.arg>> \o ArgTypes(n.typ) ELSE <<>>

\* The type arg_iter(t) is left with at its end: the declared return type.
RECURSIVE ReturnType(_)
ReturnType(t) ==
    LET n == ArgIterNext(t) IN
    IF n.some THEN ReturnType(n.typ) ELSE t

\* check::equivalent on two source types.
TypeEquivalent(expected, actual) == expected = actual

\* Verifier::equivalent; zip(..).all(..) stops at the shorter sequence.
RECURSIVE Equivalent(_, _), AllEquivalent(_, _, _)

\* An all(..) that fails when the right sequence ends before the left one.
AllEquivalent_LeftLength(ls, rs, i) ==
    IF i > Len(ls) THEN TRUE
    ELSE IF i > Len(rs) THEN FALSE
    ELSE Equivalent(ls[i], rs[i]) /\ AllEquivalent(ls, rs, i + 1)

Equivalent(expected, actual) ==
    CASE expected.abs = "TcType" /\ actual.abs = "TcType" ->
            TypeEquivalent(expected.typ, actual.typ)
      [] expected.abs = "TcType" /\ actual.abs = "Variant" ->
            IF expected.typ.k = "Variants" /\ actual.tag < Len(expected.typ.a)
            THEN LET formals == ArgTypes(expected.typ.a[actual.tag + 1]) IN
                 AllEquivalent([i \in DOMAIN formals |-> TcType(formals[i])],
                               actual.args, 1)
            ELSE FALSE
      [] expected.abs = "Variant" /\ actual.abs = "TcType" ->
            IF actual.typ.k = "Variants" /\ expected.tag < Len(actual.typ.a)
            THEN LET formals == ArgTypes(actual.typ.a[expected.tag + 1]) IN
                 AllEquivalent(expected.args,
                               [i \in DOMAIN formals |-> TcType(formals[i])], 1)
            ELSE FALSE
      [] OTHER ->
            /\ expected.tag = actual.tag
            /\ AllEquivalent(expected.args, actual.args, 1)

AllEquivalent(ls, rs, i) ==
    IF i > Len(ls) \/ i > Len(rs) THEN TRUE
    ELSE Equivalent(ls[i], rs[i]) /\ AllEquivalent(ls, rs, i + 1)

\* What one instruction does to the stack `stk`:
\*   out   "next" (the loop goes on) | "abort" (NotEnoughArguments) |
\*         "unsupported" | "panic"
\*   stack the stack afterwards
\*   new   the errors it records, in order
Outcome(out, stk, new) == [out |-> out, stack |-> stk, new |-> new]

\* Push(i): self.stack[i] is an indexing that panics out of bounds.
StepPush(stk, i) ==
    IF i < Len(stk)
    THEN Outcome("next", Append(stk, stk[i + 1]), <<>>)
    ELSE Outcome("panic", stk, <<>>)

\* PushGlobal(offset)
StepPushGlobal(stk, offset) ==
    LET g == Globals(offset) IN
    IF g.some
    THEN Outcome("next", Append(stk, TcType(g.typ)), <<>>)
    ELSE Outcome("next", stk, <<UndefinedGlobal(offset)>>)

\* The loop over expected_iter.by_ref().zip(arg_types): zip takes the next
\* formal before it looks for the next actual. Returns the type the iterator
\* is left with and the mismatches recorded.
RECURSIVE CallArgs(_, _, _, _)
CallArgs(typ, arg_types, i, new) ==
    LET n == ArgIterNext(typ) IN
    IF ~n.some THEN [typ |-> typ, new |-> new]
    ELSE IF i > Len(arg_types) THEN [typ |-> n.typ, new |-> new]
    ELSE LET expected == TcType(n.arg) IN
         CallArgs(n.typ, arg_types, i + 1,
                  IF Equivalent(expected, arg_types[i])
                  THEN new
                  ELSE Append(new, TypeMismatch(expected, arg_types[i])))

\* A call tested with < instead of <=.
TooShort_Lenient(len, args) == len < args + 1

\* Call: if self.stack.len() <= args as usize + 1.
TooShort(len, args) == len <= args + 1

\* Call(args) | TailCall(args)
StepCall(stk, args) ==
    IF TooShort(Len(stk), args)
    THEN Outcome("abort", stk, <<NotEnoughArguments>>)
    ELSE LET function_type == stk[Len(stk) - args]
             arg_types     == SubSeq(stk, Len(stk) - args + 1, Len(stk))
         IN IF function_type.abs # "TcType"
            THEN Outcome("panic", stk, <<>>)
            ELSE LET c == CallArgs(function_type.typ, arg_types, 1, <<>>) IN
                 Outcome("next",
                         Append(SubSeq(stk, 1, Len(stk) - args - 1), TcType(c.typ)),
                         c.new)

\* A split that hands over no element.
SplitOff_Empty(stk, i) == <<>>

\* Vec::split_off(i): the elements from index i (counted from 0) on.
SplitOff(stk, i) == SubSeq(stk, i + 1, Len(stk))

\* Construct(tag, args): stack.len() - args underflows, or split_off panics.
StepConstruct(stk, tag, args) ==
    IF args > Len(stk)
    THEN Outcome("panic", stk, <<>>)
    ELSE LET i == Len(stk) - args IN
         Outcome("next", Append(SubSeq(stk, 1, i), Variant(tag, SplitOff(stk, i))), <<>>)

\* A get that answers with the last element when the index is too large.
Get_Clamped(s, index) ==
    IF s = <<>> THEN [some |-> FALSE, v |-> s]
    ELSE [some |-> TRUE, v |-> s[IF index < Len(s) THEN index + 1 ELSE Len(s)]]

\* slice::get(index): the element at index (counted from 0), if there is one.
Get(s, index) ==
    IF index < Len(s) THEN [some |-> TRUE, v |-> s[index + 1]]
    ELSE [some |-> FALSE, v |-> s]

\* GetField(offset)
StepGetField(stk, offset) ==
    IF stk = <<>>
    THEN Outcome("next", stk, <<EmptyStack>>)
    ELSE LET top  == stk[Len(stk)]
             rest == SubSeq(stk, 1, Len(stk) - 1)
             maybe_type ==
                 IF top.abs = "TcType"
                 THEN IF top.typ.k = "Record"
                      THEN LET field == Get(top.typ.a, offset) IN
                           IF field.some
                           THEN [some |-> TRUE, typ |-> TcType(field.v)]
                           ELSE [some |-> FALSE, typ |-> top]
                      ELSE [some |-> FALSE, typ |-> top]
                 ELSE LET arg == Get(top.args, offset) IN
                      IF arg.some
                      THEN [some |-> TRUE, typ |-> arg.v]
                      ELSE [some |-> FALSE, typ |-> top]
         IN IF maybe_type.some
            THEN Outcome("next", Append(rest, maybe_type.typ), <<>>)
            ELSE Outcome("next", rest, <<FieldIsOutOfRange(top, offset)>>)

\* The body of verify's loop: match inst { ... }.
Step(stk, i) ==
    CASE i.op = "Push"       -> StepPush(stk, i.a)
      [] i.op = "PushInt"    -> Outcome("next", Append(stk, TcType(IntType)), <<>>)
      [] i.op = "PushFloat"  -> Outcome("next", Append(stk, TcType(FloatType)), <<>>)
      [] i.op = "PushString" -> Outcome("next", Append(stk, TcType(StringType)), <<>>)
      [] i.op = "PushGlobal" -> StepPushGlobal(stk, i.a)
      [] i.op \in {"Call", "TailCall"} -> StepCall(stk, i.a)
      [] i.op = "Construct"  -> StepConstruct(stk, i.a, i.b)
      [] i.op = "GetField"   -> StepGetField(stk, i.a)
      [] OTHER               -> Outcome("unsupported", stk, <<>>)

\* An instruction that indexes what the stack does not hold.
Malformed(stk, i) ==
    \/ i.op = "Push" /\ i.a >= Len(stk)
    \/ i.op = "Construct" /\ i.b > Len(stk)
    \/ /\ i.op \in {"Call", "TailCall"}
       /\ Len(stk) > i.a + 1
       /\ stk[Len(stk) - i.a].abs = "Variant"

\* Result<(), Errors<Error>>
Ok == [kind |-> "ok", errors |-> <<>>]

Err(batch) == [kind |-> "err", errors |-> batch]

\* An entry that pushes the formals on what the stack held.
EntryStack_NoClear(stk, ft) ==
    stk \o [i \in DOMAIN ArgTypes(ft) |-> TcType(ArgTypes(ft)[i])]

\* self.stack.clear(); for arg in arg_iter(bytecode_type) { push(arg.into()) }
EntryStack(stk, ft) == [i \in DOMAIN ArgTypes(ft) |-> TcType(ArgTypes(ft)[i])]

\* verify is entered: the stack is cleared and takes the formals of
\* bytecode_type; self.errors is what the call before left.
VerifyBegin(ft) ==
    /\ vpc = "idle"
    /\ runs < MaxRuns
    /\ runs' = runs + 1
    /\ vpc' = "run"
    /\ bytecode_type' = ft
    /\ vstack' = EntryStack(vstack, ft)
    /\ inst' = Instr("None", 0, 0)
    /\ result' = [kind |-> "none", errors |-> <<>>]
    /\ recorded' = <<>>
    /\ fatal' = FALSE
    /\ malformed' = FALSE
    /\ prefix' = <<>>
    /\ UNCHANGED <<errors, ip, nonVerifierVars>>

\* One turn of `for &inst in instructions`.
VerifyStep(i) ==
    /\ vpc = "run"
    /\ ip < MaxInstrs
    /\ ip' = ip + 1
    /\ inst' = i
    /\ LET s == Step(vstack, i) IN
       /\ vstack' = s.stack
       /\ recorded' = recorded \o s.new
       /\ malformed' = Malformed(vstack, i)
       /\ prefix' = Append(prefix, i)
       /\ fatal' = (s.out \in {"abort", "unsupported"})
       /\ CASE s.out = "next" ->
                 /\ errors' = errors \o s.new
                 /\ vpc' = "run"
                 /\ UNCHANGED result
            [] s.out = "abort" ->
                 \* return Err(mem::replace(&mut self.errors, Errors::new()))
                 /\ result' = Err(errors \o s.new)
                 /\ errors' = <<>>
                 /\ vpc' = "idle"
            [] s.out = "unsupported" ->
                 \* return Err(Errors::new())
                 /\ result' = Err(<<>>)
                 /\ errors' = errors
                 /\ vpc' = "idle"
            [] OTHER ->
                 /\ result' = [kind |-> "panic", errors |-> <<>>]
                 /\ errors' = errors
                 /\ vpc' = "panic"
    /\ UNCHANGED <<bytecode_type, runs, nonVerifierVars>>

\* The instructions are used up: the result is decided by has_errors().
VerifyEnd ==
    /\ vpc = "run"
    /\ vpc' = "idle"
    /\ IF errors # <<>>
       THEN result' = Err(errors) /\ errors' = <<>>
       ELSE result' = Ok /\ errors' = errors
    /\ UNCHANGED <<vstack, bytecode_type, ip, inst, recorded, fatal, malformed, prefix, runs,
                   nonVerifierVars>>

VerifierNext ==
    \/ \E ft \in BytecodeTypes : VerifyBegin(ft)
    \/ \E i \in Instructions : VerifyStep(i)
    \/ VerifyEnd

SpecVerifier == Init /\ [][VerifierNext]_vars

\* -------------------------------------------------------- verifier claims

\* C8: whenever verify has returned success, the verifier stack holds exactly
\* one element and that element is equivalent to the declared return type of
\* the function type that was verified.
C8_SuccessLeavesResult ==
    result.kind = "ok" =>
        /\ Len(vstack) = 1
        /\ Equivalent(TcType(ReturnType(bytecode_type)), vstack[1])

\* C9: verify never fails abnormally: every call ends with success or with an
\* error result, also on Push(i) with i >= stack length, Construct(tag, n) with
\* n > stack length and Call(n) on a Variant callee, and a call that consumed
\* such an instruction does not end with success.
C9_NeverFailsAbnormally ==
    /\ vpc # "panic"
    /\ (vpc = "idle" /\ runs > 0) => result.kind \in {"ok", "err"}
    /\ malformed => result.kind # "ok"

\* C10: an instruction that records a non-fatal error does not end the call;
\* whenever verify returns an error result (at the end of the instructions, on
\* NotEnoughArguments, on an unsupported opcode) the batch is the errors the
\* call recorded, in order; and verify returns success exactly when the call
\* recorded no error and hit no fatal condition.
C10_BatchHoldsEveryRecordedError ==
    [][/\ (ip' = ip + 1 /\ recorded' # recorded /\ ~fatal') => vpc' = "run"
       /\ (vpc = "run" /\ vpc' = "idle") =>
             /\ result'.kind = "err" => result'.errors = recorded'
             /\ result'.kind = "ok" <=> (recorded' = <<>> /\ ~fatal')]_vars

\* C11: a Call(n) or TailCall(n) reached with a stack of at most n+1 elements
\* records NotEnoughArguments and ends the call at once with an error result
\* whose last error is NotEnoughArguments; the stack is left as it was and no
\* instruction is consumed after the call has ended.
C11_TooShortCallAborts ==
    [][/\ (ip' = ip + 1 /\ inst'.op \in {"Call", "TailCall"}
             /\ Len(vstack) <= inst'.a + 1) =>
             /\ recorded' = Append(recorded, NotEnoughArguments)
             /\ vpc' = "idle"
             /\ result'.kind = "err"
             /\ result'.errors # <<>>
             /\ result'.errors[Len(result'.errors)] = NotEnoughArguments
             /\ vstack' = vstack
       /\ (vpc = "idle" /\ fatal) => (ip' = ip /\ recorded' = <<>>)]_vars

\* A Call(1) aborted on a stack of two elements, after an earlier error.
C11_Witness ==
    /\ inst.op = "Call" /\ inst.a = 1 /\ Len(vstack) = 2
    /\ vpc = "idle" /\ result.kind = "err"
    /\ Len(recorded) = 2 /\ recorded[2] = NotEnoughArguments

C13_GetFieldErrors ==
    [][(ip' = ip + 1 /\ inst'.op = "GetField") =>
          IF vstack = <<>>
          THEN /\ recorded' = Append(recorded, EmptyStack)
               /\ vstack' = <<>>
               /\ vpc' = "run"
          ELSE LET top == vstack[Len(vstack)]
                   k   == inst'.a
                   out_of_range ==
                       \/ top.abs = "TcType" /\ top.typ.k # "Record"
                       \/ top.abs = "TcType" /\ top.typ.k = "Record" /\ k >= Len(top.typ.a)
                       \/ top.abs = "Variant" /\ k >= Len(top.args)
               IN /\ vpc' = "run"
                  /\ Len(vstack') >= Len(vstack) - 1
                  /\ SubSeq(vstack', 1, Len(vstack) - 1) = SubSeq(vstack, 1, Len(vstack) - 1)
                  /\ out_of_range =>
                        /\ recorded' = Append(recorded, FieldIsOutOfRange(top, k))
                        /\ Len(vstack') = Len(vstack) - 1
                  /\ ~out_of_range =>
                        /\ recorded' = recorded
                        /\ Len(vstack') = Len(vstack)]_vars

\* [PushInt; GetField(0)] verified for the type Int: the call returns
\* FieldIsOutOfRange(TcType(Int), 0) as its only error.
C13_Witness ==
    /\ runs = 1 /\ ip = 2 /\ bytecode_type = IntType
    /\ inst = Instr("GetField", 0, 0)
    /\ vstack = <<>>
    /\ result = Err(<<FieldIsOutOfRange(TcType(IntType), 0)>>)

\* ------------------------------------------- Verifier::equivalent, on its own

\* A variant type whose one constructor takes an OptionType.
NestedType == VariantsType(<<FunctionType(OptionType, NamedType)>>)

\* Source types equivalent is called on.
EquivalentTypes == {IntType, StringType, OptionType, NestedType}

\* Variant(tag, args) with the tags and argument counts of Construct.
VariantsOver(S) == {Variant(tag, args) : tag \in Operands, args \in SeqUpTo(S, MaxOperand)}

\* Variants of one argument.
WrappersOver(S) == {Variant(tag, <<x>>) : tag \in Operands, x \in S}

\* The abstract types equivalent is called on: a TcType, a Variant of TcTypes,
\* and one or two constructor applications around any of these.
AbstractTypes ==
    LET concrete == {TcType(t) : t \in EquivalentTypes}
        shallow  == concrete \cup VariantsOver(concrete)
    IN shallow \cup WrappersOver(shallow) \cup WrappersOver(WrappersOver(shallow))

\* self.equivalent(expected, actual), and the same call the other way round.
EquivalentCall(expected, actual) ==
    /\ eq_calls = 0
    /\ eq_calls' = 1
    /\ eq_expected' = expected
    /\ eq_actual' = actual
    /\ eq_forth' = Equivalent(expected, actual)
    /\ eq_back' = Equivalent(actual, expected)
    /\ UNCHANGED <<heapVars, verifierVars, macroVars>>

EquivalentNext ==
    /\ eq_calls = 0
    /\ \E expected \in AbstractTypes, actual \in AbstractTypes :
          EquivalentCall(expected, actual)

SpecEquivalent == Init /\ [][EquivalentNext]_vars

\* C14: equivalent(a, b) = equivalent(b, a) for any two abstract types, the
\* equivalence of source types being symmetric.
C14_EquivalentIsSymmetric == eq_forth = eq_back

\* A constructor application nested in another and the variant type it
\* belongs to: equivalent, in both directions.
C14_Witness ==
    /\ eq_calls = 1
    /\ eq_expected = Variant(0, <<Variant(1, <<TcType(IntType)>>)>>)
    /\ eq_actual = TcType(NestedType)
    /\ eq_forth /\ eq_back

\* ----------------------------------------------------------- def_macro.rs

\* InternedStr
Names == 1..MaxNames

\* ast::Expr nodes: every node is a kind and a number.
Node(e, v) == [e |-> e, v |-> v]

\* ast::Expr::Identifier
Identifier(name) == Node("Identifier", name)

\* An Int literal.
IntNode(i) == Node("Int", i)

\* ast::Expr::Tuple(vec![]): the unit node.
UnitNode == Node("Tuple", 0)

\* The transformer \e -> e.
LambdaId == Node("LambdaId", 0)

\* A transformer of another value: \e -> ().
LambdaUnit == Node("LambdaUnit", 0)

\* No closure bound, no closure called.
NoGlobal == Node("None", 0)

\* The nodes an expansion may receive as arguments.
ArgNodes == {Identifier(n) : n \in Names} \cup {IntNode(4), IntNode(5), LambdaId, LambdaUnit}

\* Result<ast::LExpr, MacroError>
MacroOk(node) == [kind |-> "ok", node |-> node, msg |-> "", n |-> 0]

MacroErr(msg, n) == [kind |-> "err", node |-> NoGlobal, msg |-> msg, n |-> n]

\* A count message that names another length.
ArgCountMessage_OffByOne(len) ==
    MacroErr("Expected 'def_macro' to receive exactly 2 arguments but got", len + 1)

\* format!("Expected 'def_macro' to receive exactly 2 arguments but got {}", len)
ArgCountMessage(len) ==
    MacroErr("Expected 'def_macro' to receive exactly 2 arguments but got", len)

\* vm.set_macro(name, RunMacro { id: name }): register or replace.
SetMacro(table, name, id) == [table EXCEPT ![name] = id]

\* typecheck_expr_to(vm, expr, Some(Expr -> Expr)): whether expr has that type.
Typecheck(expr) == expr.e \in {"LambdaId", "LambdaUnit"}

\* compile_expr, BytecodeFunction::new, vm.new_closure: the closure of expr.
NewClosure(expr) == expr

\* A binding that keeps the closure bound first.
DefineGlobal_KeepsFirst(table, name, closure, bind_ok) ==
    IF bind_ok
    THEN [ok |-> TRUE,
          table |-> IF table[name] = [e |-> "None", v |-> 0]
                    THEN [table EXCEPT ![name] = closure] ELSE table]
    ELSE [ok |-> FALSE, table |-> table]

\* vm.define_global(&name, closure): binds the name, or fails.
DefineGlobal(table, name, closure, bind_ok) ==
    IF bind_ok
    THEN [ok |-> TRUE, table |-> [table EXCEPT ![name] = closure]]
    ELSE [ok |-> FALSE, table |-> table]

\* api::get_function(vm, &id)
GetFunction(table, id) == table[id]

\* A call that hands the closure the unit node.
CallClosure_DropsArgument(f, arg) ==
    IF f = LambdaId THEN UnitNode ELSE UnitNode

\* f.call(arg): the interpreter runs the closure on the node.
CallClosure(f, arg) == IF f = LambdaId THEN arg ELSE UnitNode

\* DefMacro::expand on the tables (mt, gt): what it returns and leaves behind.
DefMacroResult(mt, gt, args, bind_ok) ==
    IF Len(args) # 2
    THEN [result |-> ArgCountMessage(Len(args)), macros |-> mt, globals |-> gt,
          arguments |-> args, id |-> 0]
    ELSE IF args[1].e # "Identifier"
    THEN [result |-> MacroErr("Expected 'def_macro' to receive an identifier as the first argument", 0),
          macros |-> mt, globals |-> gt, arguments |-> args, id |-> 0]
    ELSE LET name  == args[1].v
             mt1   == SetMacro(mt, name, name)
             \* mem::replace(&mut arguments[1], unit)
             args1 == [args EXCEPT ![2] = UnitNode]
         IN IF ~Typecheck(args[2])
            THEN [result |-> MacroErr("type error", 0), macros |-> mt1, globals |-> gt,
                  arguments |-> args1, id |-> name]
            ELSE LET g == DefineGlobal(gt, name, NewClosure(args[2]), bind_ok) IN
                 IF ~g.ok
                 THEN [result |-> MacroErr("define_global failed", 0), macros |-> mt1,
                       globals |-> gt, arguments |-> args1, id |-> name]
                 ELSE [result |-> MacroOk(UnitNode), macros |-> mt1, globals |-> g.table,
                       arguments |-> args1, id |-> name]

\* The front-end expands a def_macro call site.
DefMacroExpand(args, bind_ok) ==
    LET r == DefMacroResult(macros, global_table, args, bind_ok) IN
    /\ expr_registered' = TRUE
    /\ args_in' = args
    /\ arguments' = r.arguments
    /\ macros' = r.macros
    /\ global_table' = r.globals
    /\ m_result' = r.result
    /\ m_id' = r.id
    /\ m_op' = "def_macro"
    /\ m_called' = NoGlobal
    /\ m_prev' = IF r.id = 0 THEN NoGlobal ELSE global_table[r.id]
    /\ UNCHANGED <<verified, heapVars, verifierVars, equivVars>>

\* An expansion that hands the closure the last argument of the call site.
RunMacroResult_LastArgument(gt, id, args) ==
    IF Len(args) < 1
    THEN [result |-> MacroErr("Expected macro to receive atleast 1 argument", id),
          called |-> NoGlobal]
    ELSE LET f == GetFunction(gt, id)
         IN IF f = NoGlobal
            THEN [result |-> MacroErr("Expected macro function to exist", id),
                  called |-> NoGlobal]
            ELSE [result |-> MacroOk(CallClosure(f, args[Len(args)])), called |-> f]

\* RunMacro::expand for the expander RunMacro { id }.
RunMacroResult(gt, id, args) ==
    IF Len(args) < 1
    THEN [result |-> MacroErr("Expected macro to receive atleast 1 argument", id),
          called |-> NoGlobal]
    ELSE LET arg == args[1]
             f   == GetFunction(gt, id)
         IN IF f = NoGlobal
            THEN [result |-> MacroErr("Expected macro function to exist", id),
                  called |-> NoGlobal]
            ELSE [result |-> MacroOk(CallClosure(f, arg)), called |-> f]

\* The front-end expands a call site of the macro `name`, which is in the table.
RunMacroExpand(name, args) ==
    /\ macros[name] # 0
    /\ LET r == RunMacroResult(global_table, macros[name], args) IN
       /\ m_result' = r.result
       /\ m_called' = r.called
    /\ args_in' = args
    /\ arguments' = args
    /\ m_id' = macros[name]
    /\ m_op' = "run_macro"
    /\ m_prev' = NoGlobal
    /\ UNCHANGED <<macros, global_table, expr_registered, verified,
                   heapVars, verifierVars, equivVars>>

MacroNext ==
    \/ \E args \in SeqUpTo(ArgNodes, MaxArgs), bind_ok \in BOOLEAN : DefMacroExpand(args, bind_ok)
    \/ \E name \in Names, args \in SeqUpTo(ArgNodes, MaxArgs) : RunMacroExpand(name, args)

SpecMacro == Init /\ [][MacroNext]_vars

\* ----------------------------------------------------------- macro claims

\* C15: def_macro with other than 2 arguments fails with the message
\* "Expected 'def_macro' to receive exactly 2 arguments but got <len>", and
\* with a first argument that is no identifier it fails too; in both cases the
\* macro table, the globals and the argument list are as before the call.
C15_BadArgumentsChangeNothing ==
    [][(m_op' = "def_macro"
          /\ (Len(args_in') # 2 \/ args_in'[1].e # "Identifier")) =>
          /\ m_result'.kind = "err"
          /\ Len(args_in') # 2 =>
                /\ m_result'.msg = "Expected 'def_macro' to receive exactly 2 arguments but got"
                /\ m_result'.n = Len(args_in')
          /\ macros' = macros
          /\ global_table' = global_table
          /\ arguments' = args_in']_vars

\* def_macro with one argument, on tables that hold a macro already.
C15_Witness ==
    /\ m_op = "def_macro" /\ Len(args_in) = 1
    /\ m_result.kind = "err" /\ m_result.n = 1
    /\ \E n \in Names : macros[n] # 0 /\ global_table[n] # NoGlobal

\* C16: def_macro is atomic: an expansion that fails, at whichever step,
\* leaves the macro table and the globals as they were before the call, and
\* the macro table holds an expander RunMacro{N} only together with a global
\* N bound to a closure.
C16_DefMacroIsAtomic ==
    /\ [][(m_op' = "def_macro" /\ m_result'.kind = "err") =>
             /\ macros' = macros
             /\ global_table' = global_table]_vars
    /\ [](\A n \in Names : macros[n] # 0 => global_table[n] # NoGlobal)

C18_IdentityMacroExpandsToFirstArgument ==
    [][m_op' = "run_macro" =>
         /\ arguments' = args_in'
         /\ (Len(args_in') >= 1 /\ global_table[m_id'] = LambdaId) =>
               /\ m_result' = MacroOk(args_in'[1])
               /\ m_called' = LambdaId
         /\ (Len(args_in') = 0 \/ global_table[m_id'] = NoGlobal) =>
               /\ m_result'.kind = "err"
               /\ m_called' = NoGlobal
         /\ CallClosure(LambdaId, IntNode(4)).v + CallClosure(LambdaId, IntNode(5)).v = 9]_vars

\* `id 5 4` expanded to 5 after def_macro id (\e -> e).
C18_Witness ==
    /\ m_op = "run_macro"
    /\ global_table[m_id] = LambdaId
    /\ args_in = <<IntNode(5), IntNode(4)>>
    /\ m_result = MacroOk(IntNode(5))
    /\ m_called = LambdaId

\* C19: a transformer's closure is called by RunMacro only after the verifier
\* accepted its bytecode, and def_macro binds no closure whose bytecode was
\* not verified: every closure called, and every closure bound to a global,
\* is among the verified ones.
C19_VerifiedBeforeCalled ==
    /\ m_called # NoGlobal => m_called \in verified
    /\ \A n \in Names : global_table[n] # NoGlobal => global_table[n] \in verified

\* C20: a Call(n) or TailCall(n) on a stack long enough whose callee slot,
\* n below the top, is not a Concrete function type (a Variant, or a Concrete
\* type such as Int) records NotEnoughArguments and ends the call with an
\* error result, the stack untouched, as for a stack that is too short; no
\* result type is pushed.
C20_NonFunctionCalleeAborts ==
    [][(/\ ip' = ip + 1
        /\ inst'.op \in {"Call", "TailCall"}
        /\ Len(vstack) > inst'.a + 1
        /\ LET callee == vstack[Len(vstack) - inst'.a] IN
           \/ callee.abs # "TcType"
           \/ callee.typ.k # "Function") =>
          /\ recorded' = Append(recorded, NotEnoughArguments)
          /\ vpc' = "idle"
          /\ result'.kind = "err"
          /\ vstack' = vstack]_vars

\* The type t with its first n formal arguments removed.
RECURSIVE DropFormals(_, _)
DropFormals(t, n) ==
    IF n = 0 \/ t.k # "Function" THEN t ELSE DropFormals(t.a[2], n - 1)

\* The mismatches between the formals and the actuals at the same positions.
RECURSIVE MismatchesFrom(_, _, _)
MismatchesFrom(formals, actuals, i) ==
    IF i > Len(formals) \/ i > Len(actuals) THEN <<>>
    ELSE (IF Equivalent(TcType(formals[i]), actuals[i]) THEN <<>>
          ELSE <<TypeMismatch(TcType(formals[i]), actuals[i])>>)
         \o MismatchesFrom(formals, actuals, i + 1)

\* C21: a Call(n) or TailCall(n) on a stack longer than n+1 whose callee slot
\* is a Concrete function type records a TypeMismatch exactly for the
\* positions where the actual is not equivalent to the formal, pops n+1
\* elements and pushes one Concrete type: the callee's type with exactly its
\* first n formal arguments removed.
C21_CallPushesTypeAfterNFormals ==
    [][(/\ ip' = ip + 1
        /\ inst'.op \in {"Call", "TailCall"}
        /\ Len(vstack) > inst'.a + 1
        /\ vstack[Len(vstack) - inst'.a].abs = "TcType"
        /\ vstack[Len(vstack) - inst'.a].typ.k = "Function") =>
          LET n      == inst'.a
              callee == vstack[Len(vstack) - n].typ
              actual == SubSeq(vstack, Len(vstack) - n + 1, Len(vstack))
          IN /\ recorded' = recorded \o MismatchesFrom(ArgTypes(callee), actual, 1)
             /\ Len(vstack') = Len(vstack) - n
             /\ vstack' = Append(SubSeq(vstack, 1, Len(vstack) - n - 1),
                                 TcType(DropFormals(callee, n)))]_vars

\* Two argument lists of the same length with equivalent elements throughout.
PairwiseEquivalent(ls, rs) ==
    /\ Len(ls) = Len(rs)
    /\ \A i \in 1..Len(ls) : Equivalent(ls[i], rs[i])

\* C22: equivalent(Variant(t1, args1), Variant(t2, args2)) holds exactly when
\* t1 = t2 and the two argument lists have the same length and equivalent
\* elements at every position; Concrete(e) is equivalent to Variant(tag, args)
\* only when constructor #tag of e has as many formal arguments as args has
\* elements.
C22_VariantsComparePairwise ==
    eq_calls = 1 =>
       /\ (eq_expected.abs = "Variant" /\ eq_actual.abs = "Variant") =>
             (eq_forth <=> /\ eq_expected.tag = eq_actual.tag
                           /\ PairwiseEquivalent(eq_expected.args, eq_actual.args))
       /\ (eq_expected.abs = "TcType" /\ eq_actual.abs = "Variant" /\ eq_forth) =>
             /\ eq_expected.typ.k = "Variants"
             /\ eq_actual.tag < Len(eq_expected.typ.a)
             /\ Len(ArgTypes(eq_expected.typ.a[eq_actual.tag + 1])) = Len(eq_actual.args)

\* The stack verify holds for the type ft once it has consumed the
\* instructions pre: a function of these two and of the globals alone.
RECURSIVE StackAfter(_, _)
StackAfter(ft, pre) ==
    IF pre = <<>>
    THEN [i \in DOMAIN ArgTypes(ft) |-> TcType(ArgTypes(ft)[i])]
    ELSE Step(StackAfter(ft, SubSeq(pre, 1, Len(pre) - 1)), pre[Len(pre)]).stack

\* In a call that has not panicked the stack is StackAfter of the call's own
\* type and instruction prefix, whatever the Verifier went through before.
StackIsFunctionOfPrefix ==
    (runs > 0 /\ vpc # "panic") => vstack = StackAfter(bytecode_type, prefix)

\* At entry the stack holds one Concrete(arg_i) per formal, in order.
EntryHoldsFormals ==
    runs' = runs + 1 =>
       /\ Len(vstack') = Len(ArgTypes(bytecode_type'))
       /\ \A i \in 1..Len(vstack') : vstack'[i] = TcType(ArgTypes(bytecode_type')[i])

\* PushInt, PushFloat, PushString and a resolved PushGlobal add one element;
\* an unresolved PushGlobal(k) records UndefinedGlobal(k), the stack as it was.
PushesAddOne ==
    ip' = ip + 1 =>
       /\ inst'.op \in {"PushInt", "PushFloat", "PushString"} =>
             Len(vstack') = Len(vstack) + 1
       /\ (inst'.op = "PushGlobal" /\ Globals(inst'.a).some) =>
             vstack' = Append(vstack, TcType(Globals(inst'.a).typ))
       /\ (inst'.op = "PushGlobal" /\ ~Globals(inst'.a).some) =>
             /\ vstack' = vstack
             /\ recorded' = Append(recorded, UndefinedGlobal(inst'.a))

C24_NoErrorsSurviveACall ==
    vpc = "idle" =>
       /\ errors = <<>>
       /\ (runs > 0 /\ ~fatal /\ recorded = <<>>) => result.kind = "ok"
       /\ (runs > 0 /\ ~fatal /\ result.kind = "err") => result.errors = recorded

\* C25: between heap operations (new, alloc, alloc_and_collect or collect has
\* returned) every object on the live list has its mark bit unset; and a
\* collect that follows a collect with the same roots frees nothing and keeps
\* the live list as it is.
C25_MarksClearBetweenOperations ==
    /\ [](pc = "idle" => \A i \in 1..Len(values) : ~heap[values[i]].marked)
    /\ [][(op = "collect" /\ pc = "idle" /\ op' = "collect" /\ stack' = stack) =>
             /\ pc' = "idle"
             /\ freed' = {}
             /\ values' = values
             /\ heap' = heap]_vars

\* A collect that marked from the roots, freed an object and returned: the
\* survivors it marked are unmarked again.
C25_Witness ==
    /\ op = "collect" /\ pc = "idle"
    /\ visits >= 1 /\ freed # {}
    /\ Len(values) >= 1
    /\ \A i \in 1..Len(values) : entered[values[i]] = 1 /\ ~heap[values[i]].marked

\* The sizes, header offset and payload, of the objects S of `hp`, summed.
RECURSIVE SizeOfAll(_, _)
SizeOfAll(hp, S) ==
    IF S = {} THEN 0
    ELSE LET a == CHOOSE b \in S : TRUE IN AllocPtrSize(hp[a]) + SizeOfAll(hp, S \ {a})

\* C26: after any sequence of alloc, alloc_and_collect and collect calls that
\* returned, allocated_memory is the sum of the sizes (header offset plus
\* payload) of exactly the objects on the live list, each counted once: 0 for
\* the empty list, and never below 0, so that no subtraction made while
\* freeing went below what was counted.
C26_AllocatedMemoryIsLiveSize ==
    pc = "idle" =>
       /\ Cardinality(Range(values)) = Len(values)
       /\ allocated_memory = SizeOfAll(heap, Range(values))
       /\ values = <<>> => allocated_memory = 0
       /\ allocated_memory >= 0

\* A collect that freed an object and kept one with a payload: the counter is
\* the size of what stayed.
C26_Witness ==
    /\ op = "collect" /\ pc = "idle"
    /\ freed # {}
    /\ \E i \in 1..Len(values) : heap[values[i]].value_size > 0
    /\ allocated_memory = SizeOfAll(heap, Range(values))
    /\ allocated_memory > ValueOffset

====
